---------------------------- MODULE Spec2Model ----------------------------
(***************************************************************************)
(* Position lifecycle and exit-decision engine of the TradingView ->       *)
(* Coinbase webhook server: the Position entity (models.py), the           *)
(* PositionManager (position_manager.py), the feed and order gateway of    *)
(* CoinbaseClient (coinbase_client.py) and the webhook handlers (main.py). *)
(*                                                                         *)
(* Numbers.  Python floats are modelled in fixed point:                    *)
(*   a price is an integer number of 1/PriceScale units (100.0 is          *)
(*   100 * PriceScale), a percentage is an integer number of 1/PctScale    *)
(*   percent (1.5 % is 150).  The prices and percentages the model draws   *)
(*   are chosen so that every product and quotient the code computes is    *)
(*   exact in this representation.                                         *)
(*                                                                         *)
(* Scheduling.  The server is one asyncio event loop.  A coroutine runs    *)
(* until it awaits something that suspends; _check_position,               *)
(* _close_position, close_position_manual, subscribe_trades and the        *)
(* webhook handlers contain no suspending await, so no handler runs while  *)
(* a pass of the monitor loop is under way, and none runs inside another.  *)
(* The suspension points are asyncio.sleep in _monitor_loop and            *)
(* "await self._monitor_task" in stop_monitoring.  The feed callback runs  *)
(* on the thread of the WSClient: it may fire between any two statements   *)
(* of a pass or of a close.                                                *)
(***************************************************************************)
EXTENDS Integers, Sequences, FiniteSets, TLC

\* ------------------------------------------------------------------ bounds

\* uuid4 identifiers handed out by the entry handlers in one run
MaxPositionIds == 2

\* trades the feed delivers in one run
MaxTicks == 2

\* fixed-point resolution of a price (units per 1.0) and of a percentage
PriceScale == 100000
PctScale == 100

\* the values of MAX_CONCURRENT_POSITIONS in the environment the model
\* runs the server with (config.py takes any integer, default 5)
ConfiguredLimits == {1, 2}

Products == {"BTC-USD", "ETH-USD"}

\* prices the exchange reports (ticks and the fill price): 98 .. 102
Prices == {98 * PriceScale, 99 * PriceScale, 100 * PriceScale,
           101 * PriceScale, 102 * PriceScale}

Sides == {"LONG", "SHORT"}

Ids == 1..MaxPositionIds

\* ------------------------------------------------------------- models.py

\* Optional[...] = None
None == "None"

\* x * (1 - pct / 100) and x * (1 + pct / 100)
\* variant of MinusPct: x / (1 + pct / 100)
MinusPctDivides(x, pct) == x - ((x * pct) \div (100 * PctScale + pct))

MinusPct(x, pct) == x - ((x * pct) \div (100 * PctScale))

PlusPct(x, pct) == x + ((x * pct) \div (100 * PctScale))

\* the dataclass Position with its defaults; opened_at/closed_at are
\* timestamps, kept as set ("utcnow") or unset (None)
Position(position_id, product_id, side, size, entry_price, current_price, stop_loss_price, take_profit_price, trailing_activation_price, trailing_distance_pct) ==
    [position_id |-> position_id,
     product_id |-> product_id,
     side |-> side,
     size |-> size,
     entry_price |-> entry_price,
     current_price |-> current_price,
     stop_loss_price |-> stop_loss_price,
     take_profit_price |-> take_profit_price,
     trailing_activation_price |-> trailing_activation_price,
     trailing_distance_pct |-> trailing_distance_pct,
     status |-> "ACTIVE",
     trailing_active |-> FALSE,
     trailing_stop_price |-> 0,
     opened_at |-> "utcnow",
     closed_at |-> None,
     exit_reason |-> None,
     pnl |-> 0,
     pnl_pct |-> 0]

\* Position.update_pnl is two assignments, each reading current_price;
\* pnl_pct in 1/PctScale percent
SetPnl(p) ==
    IF p.side = "LONG"
    THEN [p EXCEPT !.pnl = (p.current_price - p.entry_price) * p.size]
    ELSE [p EXCEPT !.pnl = (p.entry_price - p.current_price) * p.size]

SetPnlPct(p) ==
    IF p.side = "LONG"
    THEN [p EXCEPT !.pnl_pct = ((p.current_price - p.entry_price) * 100 * PctScale)
                                 \div p.entry_price]
    ELSE [p EXCEPT !.pnl_pct = ((p.entry_price - p.current_price) * 100 * PctScale)
                                 \div p.entry_price]

update_pnl(p) == SetPnlPct(SetPnl(p))

\* variant of should_stop_loss: the price must pass the level
should_stop_loss_strict(p) ==
    IF p.side = "LONG"
    THEN p.current_price < p.stop_loss_price
    ELSE p.current_price > p.stop_loss_price

should_stop_loss(p) ==
    IF p.side = "LONG"
    THEN p.current_price <= p.stop_loss_price
    ELSE p.current_price >= p.stop_loss_price

\* variant of should_take_profit: the price must pass the level
should_take_profit_strict(p) ==
    IF p.side = "LONG"
    THEN p.current_price > p.take_profit_price
    ELSE p.current_price < p.take_profit_price

should_take_profit(p) ==
    IF p.side = "LONG"
    THEN p.current_price >= p.take_profit_price
    ELSE p.current_price <= p.take_profit_price

should_activate_trailing(p) ==
    IF p.trailing_active
    THEN FALSE
    ELSE IF p.side = "LONG"
         THEN p.current_price >= p.trailing_activation_price
         ELSE p.current_price <= p.trailing_activation_price

\* mutant of update_trailing_stop: the candidate is stored without the
\* comparison against the stored stop
update_trailing_stop_no_ratchet(p) ==
    IF ~p.trailing_active
    THEN p
    ELSE IF p.side = "LONG"
         THEN [p EXCEPT !.trailing_stop_price =
                            MinusPct(p.current_price, p.trailing_distance_pct)]
         ELSE [p EXCEPT !.trailing_stop_price =
                            PlusPct(p.current_price, p.trailing_distance_pct)]

update_trailing_stop(p) ==
    IF ~p.trailing_active
    THEN p
    ELSE IF p.side = "LONG"
         THEN LET new_stop == MinusPct(p.current_price, p.trailing_distance_pct)
              IN  IF new_stop > p.trailing_stop_price
                  THEN [p EXCEPT !.trailing_stop_price = new_stop]
                  ELSE p
         ELSE LET new_stop == PlusPct(p.current_price, p.trailing_distance_pct)
              IN  IF new_stop < p.trailing_stop_price \/ p.trailing_stop_price = 0
                  THEN [p EXCEPT !.trailing_stop_price = new_stop]
                  ELSE p

should_trailing_stop(p) ==
    IF ~p.trailing_active
    THEN FALSE
    ELSE IF p.side = "LONG"
         THEN p.current_price <= p.trailing_stop_price
         ELSE p.current_price >= p.trailing_stop_price

\* ----------------------------------------------- position_manager.py: dict

\* self.positions is a dict keyed by position_id; a dict keeps insertion
\* order, so it is a sequence of Position objects with distinct identifiers
Keys(ps) == {ps[i].position_id : i \in DOMAIN ps}

IndexOf(ps, id) == CHOOSE i \in DOMAIN ps : ps[i].position_id = id

\* self.positions.get(position_id), for an identifier that is present
get_position(ps, id) == ps[IndexOf(ps, id)]

\* self.positions[position.position_id] = position
DictSet(ps, p) ==
    IF p.position_id \in Keys(ps)
    THEN [ps EXCEPT ![IndexOf(ps, p.position_id)] = p]
    ELSE Append(ps, p)

\* mutant of DictPop: the entry is left in the dict
DictPopKeeps(ps, id) == ps

\* self.positions.pop(position_id, None)
DictPop(ps, id) ==
    IF id \in Keys(ps)
    THEN LET k == IndexOf(ps, id)
         IN  [i \in 1..(Len(ps) - 1) |-> IF i < k THEN ps[i] ELSE ps[i + 1]]
    ELSE ps

\* the identifiers in iteration order: list(self.positions.keys())
KeyList(ps) == [i \in DOMAIN ps |-> ps[i].position_id]

\* get_active_products
get_active_products(ps) == {ps[i].product_id : i \in DOMAIN ps}

\* ------------------------------------------------------------ persistence

\* datetime.isoformat() gives the text of a timestamp, to the microsecond;
\* datetime.fromisoformat() parses it
isoformat(timestamp) == [iso |-> timestamp]

fromisoformat(text) == text.iso

\* one record of the JSON file written by _save_positions: closed_at and
\* exit_reason are not written, status is written as its value
StoredRecord(pos) ==
    [position_id |-> pos.position_id,
     product_id |-> pos.product_id,
     side |-> pos.side,
     size |-> pos.size,
     entry_price |-> pos.entry_price,
     current_price |-> pos.current_price,
     stop_loss_price |-> pos.stop_loss_price,
     take_profit_price |-> pos.take_profit_price,
     trailing_activation_price |-> pos.trailing_activation_price,
     trailing_distance_pct |-> pos.trailing_distance_pct,
     status |-> pos.status,
     trailing_active |-> pos.trailing_active,
     trailing_stop_price |-> pos.trailing_stop_price,
     opened_at |-> isoformat(pos.opened_at),
     pnl |-> pos.pnl,
     pnl_pct |-> pos.pnl_pct]

\* variant of LoadedPosition: pnl is not read from the record
LoadedPositionDefaultPnl(r) ==
    [position_id |-> r.position_id,
     product_id |-> r.product_id,
     side |-> r.side,
     size |-> r.size,
     entry_price |-> r.entry_price,
     current_price |-> r.current_price,
     stop_loss_price |-> r.stop_loss_price,
     take_profit_price |-> r.take_profit_price,
     trailing_activation_price |-> r.trailing_activation_price,
     trailing_distance_pct |-> r.trailing_distance_pct,
     status |-> r.status,
     trailing_active |-> r.trailing_active,
     trailing_stop_price |-> r.trailing_stop_price,
     opened_at |-> fromisoformat(r.opened_at),
     closed_at |-> None,
     exit_reason |-> None,
     pnl |-> 0,
     pnl_pct |-> r.pnl_pct]

\* the Position built from one record by _load_positions: closed_at and
\* exit_reason take the dataclass defaults
LoadedPosition(r) ==
    [position_id |-> r.position_id,
     product_id |-> r.product_id,
     side |-> r.side,
     size |-> r.size,
     entry_price |-> r.entry_price,
     current_price |-> r.current_price,
     stop_loss_price |-> r.stop_loss_price,
     take_profit_price |-> r.take_profit_price,
     trailing_activation_price |-> r.trailing_activation_price,
     trailing_distance_pct |-> r.trailing_distance_pct,
     status |-> r.status,
     trailing_active |-> r.trailing_active,
     trailing_stop_price |-> r.trailing_stop_price,
     opened_at |-> fromisoformat(r.opened_at),
     closed_at |-> None,
     exit_reason |-> None,
     pnl |-> r.pnl,
     pnl_pct |-> r.pnl_pct]

\* Config.POSITIONS_FILE: absent (open raises FileNotFoundError), not JSON
\* (json.load raises), or a JSON object whose values are the records, in
\* file order
MissingFile == [state |-> "missing", records |-> <<>>]

UnreadableFile == [state |-> "unreadable", records |-> <<>>]

JsonFile(records) == [state |-> "json", records |-> records]

\* the file content for a dict of positions
SavedFile(ps) == JsonFile([i \in DOMAIN ps |-> StoredRecord(ps[i])])

\* the keys _load_positions reads from a record
StoredKeys ==
    {"position_id", "product_id", "side", "size", "entry_price", "current_price",
     "stop_loss_price", "take_profit_price", "trailing_activation_price",
     "trailing_distance_pct", "status", "trailing_active", "trailing_stop_price",
     "opened_at", "pnl", "pnl_pct"}

\* Position(...) can be built from the record: no KeyError, and
\* PositionStatus(pos_data["status"]) finds the value
WellFormed(r) ==
    /\ StoredKeys \subseteq DOMAIN r
    /\ r.status \in {"ACTIVE", "TRAILING", "CLOSED"}

\* the records the loop of _load_positions gets through: it stores each
\* Position in self.positions before it reads the next record, and the
\* first record that raises ends it
LoadedCount(records) ==
    LET bad == {i \in DOMAIN records : ~WellFormed(records[i])}
    IN  IF bad = {}
        THEN Len(records)
        ELSE (CHOOSE i \in bad : \A j \in bad : i <= j) - 1

\* _load_positions: every exception is caught and logged
_load_positions(file) ==
    IF file.state # "json"
    THEN <<>>
    ELSE [i \in 1..LoadedCount(file.records) |-> LoadedPosition(file.records[i])]

\* ------------------------------------------------------------- state

VARIABLES
    enable_trading,   \* Config.ENABLE_TRADING, fixed when the process starts
    max_positions,    \* Config.MAX_CONCURRENT_POSITIONS, fixed when the process starts
    positions,        \* PositionManager.positions
    store,            \* the content of Config.POSITIONS_FILE
    monitoring,       \* PositionManager.monitoring
    monitor_task,     \* PositionManager._monitor_task: none, sleeping, running, cancelling, done
    mon,              \* where the loop task is inside its pass, and the locals of _check_position
    stop_pc,          \* where stop_monitoring is: idle, awaiting (the task)
    ws_client,        \* CoinbaseClient.ws_client: none, open, failed or closed, and its subscription
    ws_orphans,       \* products of the WSClient objects replaced without being closed
    next_id,          \* the identifiers uuid4 has handed out so far, plus one
    ticks,            \* trades delivered so far
    phase,            \* lifespan of the application: constructed, serving, stopping, shutdown
    closed,           \* per identifier, what _close_position wrote when it marked the object CLOSED
    close_orders,     \* per identifier, the close orders the gateway accepted
    removals,         \* per identifier, how often it was popped from positions
    stopped,          \* stop_monitoring has returned and start_monitoring was not called since
    loop_tasks        \* the tasks asyncio.create_task made for _monitor_loop that have not finished

vars == <<enable_trading, max_positions, positions, store, monitoring, monitor_task, mon, stop_pc, ws_client, ws_orphans, next_id, ticks, phase, closed, close_orders, removals, stopped, loop_tasks>>

\* counters of the history variables saturate at 2
Bump(n) == IF n < 2 THEN n + 1 ELSE n

\* the history entry of an identifier no object of which was marked CLOSED
NotClosed ==
    [status |-> None, exit_reason |-> None, closed_at |-> None,
     by |-> None, written_after |-> FALSE]

\* the history entry of an object marked CLOSED: the fields written at the
\* close, who closed it (the loop's check or a request) and whether a field
\* of the object was written after its status became CLOSED
ClosedEntry(p, by, written_after) ==
    [status |-> p.status, exit_reason |-> p.exit_reason, closed_at |-> p.closed_at,
     by |-> by, written_after |-> written_after]

\* the state one operation works on, with what the operation did: the
\* identifiers it called client.close_position for (called), what became of
\* the entry order (entry), whether an exception is propagating (raised),
\* the value it returns (ret) and the objects it marked CLOSED, as they were
\* when they left the dict (closed_now)
World ==
    [positions |-> positions,
     store |-> store,
     closed |-> closed,
     close_orders |-> close_orders,
     removals |-> removals,
     ws_client |-> ws_client,
     ws_orphans |-> ws_orphans,
     next_id |-> next_id,
     ticks |-> ticks,
     by |-> "request",
     called |-> {},
     entry |-> "not called",
     raised |-> FALSE,
     ret |-> None,
     closed_now |-> <<>>]

\* the state after an operation
Commit(w) ==
    /\ positions' = w.positions
    /\ store' = w.store
    /\ closed' = w.closed
    /\ close_orders' = w.close_orders
    /\ removals' = w.removals
    /\ ws_client' = w.ws_client
    /\ ws_orphans' = w.ws_orphans
    /\ next_id' = w.next_id
    /\ ticks' = w.ticks

\* ------------------------------------------------- coinbase_client.py: feed

NoClient == [state |-> "none", products |-> {}]

\* the products for which a WSClient that was opened and never closed
\* delivers trades
Delivering(w) ==
    (IF w.ws_client.state = "open" THEN w.ws_client.products ELSE {}) \cup w.ws_orphans

\* subscribe_trades builds a new WSClient and rebinds self.ws_client; the
\* client it replaces is not closed.  ok = FALSE: open() raises, the
\* exception is logged and raised again
subscribe_trades(w, product_ids, ok) ==
    [w EXCEPT !.ws_client = [state |-> IF ok THEN "open" ELSE "failed",
                             products |-> product_ids],
              !.ws_orphans = Delivering(w),
              !.raised = ~ok]

\* variant of disconnect_ws: close() of a client that is already closed
\* raises and the exception leaves disconnect_ws
disconnect_ws_close_raises(w) ==
    IF w.ws_client.state = "none"
    THEN w
    ELSE IF w.ws_client.state = "closed"
         THEN [w EXCEPT !.raised = TRUE]
         ELSE [w EXCEPT !.ws_client.state = "closed"]

\* disconnect_ws: close() of the current client; an exception of it is logged
disconnect_ws(w) ==
    IF w.ws_client.state = "none"
    THEN w
    ELSE [w EXCEPT !.ws_client.state = "closed"]

\* variant of _on_price_update: every position takes the price
_on_price_update_all(w, symbol, price) ==
    [w EXCEPT !.positions = [i \in DOMAIN @ |-> [@[i] EXCEPT !.current_price = price]],
              !.ticks = @ + 1]

\* the callback the WSClient runs on its own thread for one trade
_on_price_update(w, symbol, price) ==
    [w EXCEPT !.positions =
                  [i \in DOMAIN @ |->
                      IF @[i].product_id = symbol
                      THEN [@[i] EXCEPT !.current_price = price]
                      ELSE @[i]],
              !.ticks = @ + 1]

\* a trade of the product can be delivered now
Deliverable(w, symbol) == symbol \in Delivering(w) /\ w.ticks < MaxTicks

\* ------------------------------------------- position_manager.py: engine

_save_positions(w) == [w EXCEPT !.store = SavedFile(w.positions)]

add_position(w, position) ==
    _save_positions([w EXCEPT !.positions = DictSet(@, position)])

remove_position(w, id) ==
    IF id \in Keys(w.positions)
    THEN _save_positions([w EXCEPT !.positions = DictPop(@, id),
                                   !.removals[id] = Bump(@)])
    ELSE w

\* variant of MarkClosed: exit_reason is not assigned
MarkClosedNoReason(p, reason) ==
    [p EXCEPT !.status = "CLOSED", !.closed_at = "utcnow"]

\* position.status = CLOSED; position.exit_reason = reason; position.closed_at = utcnow()
MarkClosed(p, reason) ==
    [p EXCEPT !.status = "CLOSED", !.exit_reason = reason, !.closed_at = "utcnow"]

\* the tail of _close_position: the object in the dict is marked CLOSED and
\* then popped.  late is the price of a trade the feed thread delivers
\* between the two (0: none); until the pop the object is in the dict the
\* callback iterates
CloseAndRemove(w, id, reason, late) ==
    LET p == MarkClosed(get_position(w.positions, id), reason)
        w1 == [w EXCEPT !.positions = DictSet(@, p)]
        w2 == IF late # 0 /\ Deliverable(w1, p.product_id)
              THEN _on_price_update(w1, p.product_id, late)
              ELSE w1
        q == get_position(w2.positions, id)
    IN  remove_position([w2 EXCEPT !.closed[id] = ClosedEntry(p, w.by, q # p),
                                   !.closed_now = Append(@, q)], id)

\* variant of _close_position: a failed gateway call is not raised, the
\* position is closed and removed all the same
_close_position_ignores_failure(w, id, reason, ok, late) ==
    IF ~enable_trading
    THEN CloseAndRemove(w, id, reason, late)
    ELSE CloseAndRemove([w EXCEPT !.called = @ \cup {id},
                                  !.close_orders[id] = IF ok THEN Bump(@) ELSE @],
                        id, reason, late)

\* variant of _close_position: paper mode sends the order as well
_close_position_paper_calls(w, id, reason, ok, late) ==
    IF ok
    THEN CloseAndRemove([w EXCEPT !.called = @ \cup {id},
                                  !.close_orders[id] = Bump(@)], id, reason, late)
    ELSE [w EXCEPT !.called = @ \cup {id}, !.raised = TRUE]

\* ok: whether client.close_position succeeds; when it raises, the
\* exception is logged and raised again
_close_position(w, id, reason, ok, late) ==
    IF ~enable_trading
    THEN CloseAndRemove(w, id, reason, late)
    ELSE IF ok
         THEN CloseAndRemove([w EXCEPT !.called = @ \cup {id},
                                       !.close_orders[id] = Bump(@)], id, reason, late)
         ELSE [w EXCEPT !.called = @ \cup {id}, !.raised = TRUE]

\* variant of close_position_manual: an identifier that is not in the dict
\* is reported as closed
close_position_manual_always_true(w, id, gw, late) ==
    IF id \notin Keys(w.positions)
    THEN [w EXCEPT !.ret = "True"]
    ELSE LET w1 == _close_position(w, id, "MANUAL", gw[id], late[id])
         IN  IF w1.raised THEN w1 ELSE [w1 EXCEPT !.ret = "True"]

\* gw[id], late[id]: the gateway's answer and the late trade for each close
close_position_manual(w, id, gw, late) ==
    IF id \notin Keys(w.positions)
    THEN [w EXCEPT !.ret = "False"]
    ELSE LET w1 == _close_position(w, id, "MANUAL", gw[id], late[id])
         IN  IF w1.raised THEN w1 ELSE [w1 EXCEPT !.ret = "True"]

\* the loop of close_all_positions and of handle_close_all: an exception of
\* one close leaves the loop
RECURSIVE CloseEach(_, _, _, _)
CloseEach(w, ids, gw, late) ==
    IF ids = <<>>
    THEN w
    ELSE LET w1 == close_position_manual(w, Head(ids), gw, late)
         IN  IF w1.raised THEN w1 ELSE CloseEach(w1, Tail(ids), gw, late)

close_all_positions(w, gw, late) == CloseEach(w, KeyList(w.positions), gw, late)

\* -------------------------------- position_manager.py: the monitoring loop

\* The loop task runs on the event loop; the feed callback runs on the
\* WSClient's thread and may write current_price between any two reads of
\* the check.  The check is therefore a sequence of steps, one per read of
\* current_price, and mon holds where it is:
\*   pc      idle, pnl, pnl_pct, activate, seed, ratchet, exit or close
\*   todo    the rest of the snapshot list(self.positions.items()); its head
\*           is the position under check
\*   tried   the exit predicates of this check that came out false, in order
\*   reason  exit_reason, once a predicate came out true
\*   raced   a trade changed the price of the position under check after the
\*           check's first read
Idle == [pc |-> "idle", todo |-> <<>>, tried |-> <<>>, reason |-> None, raced |-> FALSE]

StartCheck(ids) ==
    [pc |-> "pnl", todo |-> ids, tried |-> <<>>, reason |-> None, raced |-> FALSE]

\* no coroutine is between two suspension points: the event loop can run a handler
LoopFree == mon.pc = "idle"

\* the position under check
Checked == get_position(positions, Head(mon.todo))

\* the for loop goes on to the next position of the snapshot, or the task
\* reaches asyncio.sleep
NextCheck ==
    IF Tail(mon.todo) = <<>>
    THEN mon' = Idle /\ monitor_task' = "sleeping"
    ELSE mon' = StartCheck(Tail(mon.todo)) /\ monitor_task' = "running"

\* variant of ExitOrder: take profit is looked at first
ExitOrderProfitFirst == <<"TAKE_PROFIT", "STOP_LOSS", "TRAILING_STOP">>

\* the if / elif / elif chain of _check_position
ExitOrder == <<"STOP_LOSS", "TRAILING_STOP", "TAKE_PROFIT">>

\* the predicate the chain calls for a reason
Triggered(p, reason) ==
    CASE reason = "STOP_LOSS" -> should_stop_loss(p)
      [] reason = "TRAILING_STOP" -> should_trailing_stop(p)
      [] reason = "TAKE_PROFIT" -> should_take_profit(p)

\* variant of ActivateTrailing: status is left as it is
ActivateTrailingKeepsStatus(p) ==
    [p EXCEPT !.trailing_active = TRUE,
              !.trailing_stop_price =
                  IF p.side = "LONG"
                  THEN MinusPct(p.current_price, p.trailing_distance_pct)
                  ELSE PlusPct(p.current_price, p.trailing_distance_pct)]

\* the arming branch of _check_position
ActivateTrailing(p) ==
    [p EXCEPT !.trailing_active = TRUE,
              !.status = "TRAILING",
              !.trailing_stop_price =
                  IF p.side = "LONG"
                  THEN MinusPct(p.current_price, p.trailing_distance_pct)
                  ELSE PlusPct(p.current_price, p.trailing_distance_pct)]

\* the loop task wakes: "while self.monitoring" and the snapshot
MonitorWake ==
    /\ monitor_task = "sleeping"
    /\ IF ~monitoring
       THEN monitor_task' = "done" /\ loop_tasks' = loop_tasks - 1 /\ UNCHANGED mon
       ELSE IF positions = <<>>
            THEN UNCHANGED <<monitor_task, mon, loop_tasks>>
            ELSE monitor_task' = "running" /\ mon' = StartCheck(KeyList(positions)) /\ UNCHANGED loop_tasks
    /\ UNCHANGED <<enable_trading, max_positions, positions, store, monitoring, stop_pc, ws_client, ws_orphans, next_id, ticks, phase, closed, close_orders, removals, stopped>>

\* update_pnl, first assignment
CheckPnl ==
    /\ mon.pc = "pnl"
    /\ positions' = DictSet(positions, SetPnl(Checked))
    /\ mon' = [mon EXCEPT !.pc = "pnl_pct"]
    /\ UNCHANGED <<enable_trading, max_positions, store, monitoring, monitor_task, stop_pc, ws_client, ws_orphans, next_id, ticks, phase, closed, close_orders, removals, stopped, loop_tasks>>

\* update_pnl, second assignment
CheckPnlPct ==
    /\ mon.pc = "pnl_pct"
    /\ positions' = DictSet(positions, SetPnlPct(Checked))
    /\ mon' = [mon EXCEPT !.pc = "activate"]
    /\ UNCHANGED <<enable_trading, max_positions, store, monitoring, monitor_task, stop_pc, ws_client, ws_orphans, next_id, ticks, phase, closed, close_orders, removals, stopped, loop_tasks>>

\* "if not position.trailing_active and position.should_activate_trailing()"
CheckActivate ==
    /\ mon.pc = "activate"
    /\ mon' = [mon EXCEPT !.pc = IF ~Checked.trailing_active /\ should_activate_trailing(Checked)
                                 THEN "seed"
                                 ELSE "ratchet"]
    /\ UNCHANGED <<enable_trading, max_positions, positions, store, monitoring, monitor_task, stop_pc, ws_client, ws_orphans, next_id, ticks, phase, closed, close_orders, removals, stopped, loop_tasks>>

\* variant of CheckSeed: the arming is not saved
CheckSeedNotSaved ==
    /\ mon.pc = "seed"
    /\ positions' = DictSet(positions, ActivateTrailing(Checked))
    /\ mon' = [mon EXCEPT !.pc = "ratchet"]
    /\ UNCHANGED <<enable_trading, max_positions, store, monitoring, monitor_task, stop_pc, ws_client, ws_orphans, next_id, ticks, phase, closed, close_orders, removals, stopped, loop_tasks>>

\* the body of the arming branch, with its save
CheckSeed ==
    /\ mon.pc = "seed"
    /\ positions' = DictSet(positions, ActivateTrailing(Checked))
    /\ store' = SavedFile(positions')
    /\ mon' = [mon EXCEPT !.pc = "ratchet"]
    /\ UNCHANGED <<enable_trading, max_positions, monitoring, monitor_task, stop_pc, ws_client, ws_orphans, next_id, ticks, phase, closed, close_orders, removals, stopped, loop_tasks>>

\* "if position.trailing_active": update_trailing_stop, saved when the stop moved
CheckRatchet ==
    /\ mon.pc = "ratchet"
    /\ LET p == IF Checked.trailing_active THEN update_trailing_stop(Checked) ELSE Checked
       IN  /\ positions' = DictSet(positions, p)
           /\ store' = IF p.trailing_stop_price # Checked.trailing_stop_price
                       THEN SavedFile(positions')
                       ELSE store
    /\ mon' = [mon EXCEPT !.pc = "exit"]
    /\ UNCHANGED <<enable_trading, max_positions, monitoring, monitor_task, stop_pc, ws_client, ws_orphans, next_id, ticks, phase, closed, close_orders, removals, stopped, loop_tasks>>

\* one predicate of the exit chain
CheckExit ==
    /\ mon.pc = "exit"
    /\ LET reason == ExitOrder[Len(mon.tried) + 1]
       IN  IF Triggered(Checked, reason)
           THEN mon' = [mon EXCEPT !.pc = "close", !.reason = reason] /\ UNCHANGED monitor_task
           ELSE IF Len(mon.tried) + 1 = Len(ExitOrder)
                THEN NextCheck
                ELSE mon' = [mon EXCEPT !.tried = Append(@, reason)] /\ UNCHANGED monitor_task
    /\ UNCHANGED <<enable_trading, max_positions, positions, store, monitoring, stop_pc, ws_client, ws_orphans, next_id, ticks, phase, closed, close_orders, removals, stopped, loop_tasks>>

\* variant of CheckClose: an exception of _close_position is caught by
\* _monitor_loop only, which gives up the pass and sleeps
CheckCloseFailureSkipsPass(ok, late) ==
    /\ mon.pc = "close"
    /\ Commit(_close_position([World EXCEPT !.by = "check"], Head(mon.todo), mon.reason, ok, late))
    /\ IF enable_trading /\ ~ok
       THEN mon' = Idle /\ monitor_task' = "sleeping"
       ELSE NextCheck
    /\ UNCHANGED <<enable_trading, max_positions, monitoring, stop_pc, phase, stopped, loop_tasks>>

\* variant of CheckClose: an exception of _close_position is not caught by
\* _check_position and ends the loop task
CheckCloseFailureEndsLoop(ok, late) ==
    /\ mon.pc = "close"
    /\ Commit(_close_position([World EXCEPT !.by = "check"], Head(mon.todo), mon.reason, ok, late))
    /\ IF enable_trading /\ ~ok
       THEN mon' = Idle /\ monitor_task' = "done" /\ loop_tasks' = loop_tasks - 1
       ELSE NextCheck /\ UNCHANGED loop_tasks
    /\ UNCHANGED <<enable_trading, max_positions, monitoring, stop_pc, phase, stopped>>

\* "if exit_reason: await self._close_position(position, exit_reason)"; an
\* exception of it is logged by _check_position
CheckClose(ok, late) ==
    /\ mon.pc = "close"
    /\ Commit(_close_position([World EXCEPT !.by = "check"], Head(mon.todo), mon.reason, ok, late))
    /\ NextCheck
    /\ UNCHANGED <<enable_trading, max_positions, monitoring, stop_pc, phase, stopped, loop_tasks>>

\* the task is cancelled: CancelledError at its await, or before its first step
MonitorCancelled ==
    /\ monitor_task = "cancelling"
    /\ monitor_task' = "done"
    /\ loop_tasks' = loop_tasks - 1
    /\ UNCHANGED <<enable_trading, max_positions, positions, store, monitoring, mon, stop_pc, ws_client, ws_orphans, next_id, ticks, phase, closed, close_orders, removals, stopped>>

\* the feed thread delivers one trade
Tick(symbol, price) ==
    /\ Deliverable(World, symbol)
    /\ Commit(_on_price_update(World, symbol, price))
    /\ mon' = IF /\ mon.pc \notin {"idle", "pnl"}
                 /\ Checked.product_id = symbol
                 /\ Checked.current_price # price
              THEN [mon EXCEPT !.raced = TRUE]
              ELSE mon
    /\ UNCHANGED <<enable_trading, max_positions, monitoring, monitor_task, stop_pc, phase, stopped, loop_tasks>>

\* variant of start_monitoring: the test of self.monitoring is left out
start_monitoring_no_guard(sub_ok) ==
    /\ monitoring' = TRUE
    /\ Commit(IF get_active_products(positions) # {}
              THEN subscribe_trades(World, get_active_products(positions), sub_ok)
              ELSE World)
    /\ monitor_task' = "sleeping"
    /\ loop_tasks' = Bump(loop_tasks)
    /\ stopped' = FALSE
    /\ UNCHANGED <<enable_trading, max_positions, mon, stop_pc>>

\* start_monitoring; sub_ok: the subscription succeeds
start_monitoring(sub_ok) ==
    /\ IF monitoring
       THEN UNCHANGED <<positions, store, monitoring, monitor_task, ws_client, ws_orphans, next_id, ticks, closed, close_orders, removals, stopped, loop_tasks>>
       ELSE /\ monitoring' = TRUE
            /\ Commit(IF get_active_products(positions) # {}
                      THEN subscribe_trades(World, get_active_products(positions), sub_ok)
                      ELSE World)
            /\ monitor_task' = "sleeping"
            /\ loop_tasks' = Bump(loop_tasks)
            /\ stopped' = FALSE
    /\ UNCHANGED <<enable_trading, max_positions, mon, stop_pc>>

\* variant of stop_monitoring_begin: the feed is disconnected, the flag and
\* the task are left alone
stop_monitoring_only_disconnects ==
    /\ Commit(disconnect_ws(World))
    /\ stopped' = TRUE
    /\ UNCHANGED <<enable_trading, max_positions, monitoring, monitor_task, mon, stop_pc, loop_tasks>>

\* variant of stop_monitoring_begin: the task is cancelled and the feed is
\* disconnected at once, the task is not awaited
stop_monitoring_no_await ==
    /\ monitoring' = FALSE
    /\ monitor_task' = IF monitor_task \in {"none", "done"} THEN monitor_task ELSE "cancelling"
    /\ Commit(disconnect_ws(World))
    /\ stopped' = TRUE
    /\ UNCHANGED <<enable_trading, max_positions, mon, stop_pc, loop_tasks>>

\* stop_monitoring up to "await self._monitor_task"; with no task, or a
\* task that has finished, it runs to its end
stop_monitoring_begin ==
    /\ monitoring' = FALSE
    /\ IF monitor_task \in {"none", "done"}
       THEN /\ Commit(disconnect_ws(World))
            /\ stopped' = TRUE
            /\ UNCHANGED <<monitor_task, stop_pc>>
       ELSE /\ monitor_task' = "cancelling"
            /\ stop_pc' = "awaiting"
            /\ UNCHANGED <<positions, store, ws_client, ws_orphans, next_id, ticks, closed, close_orders, removals, stopped>>
    /\ UNCHANGED <<enable_trading, max_positions, mon, loop_tasks>>

\* stop_monitoring from the await on: disconnect_ws
stop_monitoring_finish ==
    /\ stop_pc = "awaiting"
    /\ monitor_task = "done"
    /\ Commit(disconnect_ws(World))
    /\ stop_pc' = "idle"
    /\ stopped' = TRUE
    /\ UNCHANGED <<enable_trading, max_positions, monitoring, monitor_task, mon, loop_tasks>>

\* --------------------------------------------------------------- main.py

\* the alert fields the handlers read; the percentages are the defaults of
\* TradingViewAlert (1.5, 1.5, 0.8, 0.75) and the notional is 100.0
Alert(symbol) ==
    [symbol |-> symbol,
     position_size_usd |-> 100 * PriceScale,
     stop_loss_pct |-> 150,
     take_profit_pct |-> 150,
     trailing_activation_pct |-> 80,
     trailing_distance_pct |-> 75]

\* what get_current_price returns: the price, or 0.0 when the lookup failed
FillPrices == {0, 100 * PriceScale}

\* variant of LongPosition: the stop-loss offset is added, as for a SHORT
LongPositionStopAbove(alert, id, fill_price) ==
    Position(id, alert.symbol, "LONG", alert.position_size_usd \div fill_price, fill_price, fill_price, PlusPct(fill_price, alert.stop_loss_pct), PlusPct(fill_price, alert.take_profit_pct), PlusPct(fill_price, alert.trailing_activation_pct), alert.trailing_distance_pct)

\* the Position handle_long_entry builds
LongPosition(alert, id, fill_price) ==
    Position(id, alert.symbol, "LONG", alert.position_size_usd \div fill_price, fill_price, fill_price, MinusPct(fill_price, alert.stop_loss_pct), PlusPct(fill_price, alert.take_profit_pct), PlusPct(fill_price, alert.trailing_activation_pct), alert.trailing_distance_pct)

\* the Position handle_short_entry builds
ShortPosition(alert, id, fill_price) ==
    Position(id, alert.symbol, "SHORT", alert.position_size_usd \div fill_price, fill_price, fill_price, PlusPct(fill_price, alert.stop_loss_pct), MinusPct(fill_price, alert.take_profit_pct), MinusPct(fill_price, alert.trailing_activation_pct), alert.trailing_distance_pct)

\* variant of EntryAdmitted: the check for an open position in the product is left out
EntryAdmittedNoProductCheck(ps, symbol) == ~(Len(ps) >= max_positions)

\* the two checks handle_long_entry and handle_short_entry start with
EntryAdmitted(ps, symbol) ==
    /\ ~(Len(ps) >= max_positions)
    /\ symbol \notin get_active_products(ps)

\* the body handle_long_entry and handle_short_entry share.
\* order_ok: place_market_order succeeds; fill_price: get_current_price;
\* sub_ok: the re-subscription succeeds.  With fill_price = 0.0 the
\* division position_size_usd / fill_price raises ZeroDivisionError
HandleEntry(w, side, alert, order_ok, fill_price, sub_ok) ==
    IF ~EntryAdmitted(w.positions, alert.symbol)
    THEN [w EXCEPT !.raised = TRUE, !.ret = "rejected"]
    ELSE IF ~order_ok
    THEN [w EXCEPT !.raised = TRUE, !.ret = "error", !.entry = "failed"]
    ELSE IF fill_price = 0
    THEN [w EXCEPT !.raised = TRUE, !.ret = "error", !.entry = "accepted"]
    ELSE LET position == IF side = "LONG"
                         THEN LongPosition(alert, w.next_id, fill_price)
                         ELSE ShortPosition(alert, w.next_id, fill_price)
             w1 == add_position([w EXCEPT !.entry = "accepted", !.next_id = @ + 1], position)
             w2 == subscribe_trades(w1, get_active_products(w1.positions), sub_ok)
         IN  IF w2.raised
             THEN [w2 EXCEPT !.ret = "error"]
             ELSE [w2 EXCEPT !.ret = "opened"]

handle_long_entry(w, alert, order_ok, fill_price, sub_ok) ==
    HandleEntry(w, "LONG", alert, order_ok, fill_price, sub_ok)

handle_short_entry(w, alert, order_ok, fill_price, sub_ok) ==
    HandleEntry(w, "SHORT", alert, order_ok, fill_price, sub_ok)

\* the positions handle_exit looks through, in order
Matching(ps, symbol, side) ==
    {i \in DOMAIN ps : ps[i].product_id = symbol /\ ps[i].side = side}

FirstMatching(ps, symbol, side) ==
    CHOOSE i \in Matching(ps, symbol, side) : \A j \in Matching(ps, symbol, side) : i <= j

handle_exit(w, symbol, side, gw, late) ==
    IF Matching(w.positions, symbol, side) = {}
    THEN [w EXCEPT !.ret = "no position"]
    ELSE LET id == w.positions[FirstMatching(w.positions, symbol, side)].position_id
             w1 == close_position_manual(w, id, gw, late)
         IN  IF w1.raised THEN [w1 EXCEPT !.ret = "error"] ELSE [w1 EXCEPT !.ret = "closed"]

handle_close_all(w, gw, late) ==
    LET w1 == CloseEach(w, KeyList(w.positions), gw, late)
    IN  IF w1.raised THEN [w1 EXCEPT !.ret = "error"] ELSE [w1 EXCEPT !.ret = "closed"]

\* POST /close/{position_id}: 200, or 500 (also for "Position not found",
\* whose HTTPException the handler's own except clause catches)
close_position_endpoint(w, id, gw, late) ==
    LET w1 == close_position_manual(w, id, gw, late)
    IN  IF w1.raised \/ w1.ret = "False"
        THEN [w1 EXCEPT !.raised = TRUE, !.ret = "error"]
        ELSE [w1 EXCEPT !.ret = "closed"]

\* the names of the members of the enum Action
Actions == {"LONG", "SHORT", "EXIT_LONG", "EXIT_SHORT", "CLOSE_ALL"}

\* alert.action as webhook finds it: the member of Action, or the member's
\* value, a plain str.  TradingViewAlert has Config.use_enum_values = True,
\* with which the validation of the request body stores the value; which of
\* the two the installed validation library hands over is not fixed by the
\* source, so a request carries either
EnumMember(name) == [type |-> "Action", name |-> name]

EnumValue(name) == [type |-> "str", name |-> name]

AlertActions(names) == {EnumMember(n) : n \in names} \cup {EnumValue(n) : n \in names}

\* alert.action.value can be read: a str has no attribute value
HasValue(action) == action.type = "Action"

\* webhook: the alert is logged, with alert.action.value; in paper mode it
\* is answered at once, otherwise the handler of the alert's action runs
\* (handled: what it does).  Every exception, the AttributeError of the log
\* line included, becomes HTTPException 500
webhook(w, action, handled) ==
    IF ~HasValue(action)
    THEN [w EXCEPT !.raised = TRUE, !.ret = "error"]
    ELSE IF ~enable_trading
         THEN [w EXCEPT !.ret = "paper"]
         ELSE handled

\* ------------------------------------------------------------ application

\* the file a previous run left behind: positions the entry handlers built
Stored(id, symbol, side) ==
    StoredRecord(IF side = "LONG"
                 THEN LongPosition(Alert(symbol), id, 100 * PriceScale)
                 ELSE ShortPosition(Alert(symbol), id, 100 * PriceScale))

InitialStores ==
    {MissingFile,
     JsonFile(<<Stored(1, "BTC-USD", "LONG")>>),
     JsonFile(<<Stored(1, "BTC-USD", "SHORT")>>),
     JsonFile(<<Stored(1, "BTC-USD", "LONG"), Stored(2, "ETH-USD", "SHORT")>>)}

\* the price of a trade the feed thread delivers while a close is between
\* its status write and its pop; 0: no trade then
LatePrices == {0, 98 * PriceScale, 102 * PriceScale}

\* what the gateway answers to each close of a request, and the late trade
\* of each
Answers == [Keys(positions) -> BOOLEAN]

LateTrades == [Keys(positions) -> LatePrices]

\* the same for a request that closes one position
Answer(ok) == [i \in Ids |-> ok]

LateTrade(late) == [i \in Ids |-> late]

\* the routing of webhook: the handler of the alert's action, with what the
\* exchange answers (ok: the entry order or the close; late: a trade
\* delivered during a close)
Routed(w, name, symbol, ok, fill_price, sub_ok, late) ==
    CASE name = "LONG" -> handle_long_entry(w, Alert(symbol), ok, fill_price, sub_ok)
      [] name = "SHORT" -> handle_short_entry(w, Alert(symbol), ok, fill_price, sub_ok)
      [] name = "EXIT_LONG" -> handle_exit(w, symbol, "LONG", Answer(ok), LateTrade(late))
      [] name = "EXIT_SHORT" -> handle_exit(w, symbol, "SHORT", Answer(ok), LateTrade(late))
      [] name = "CLOSE_ALL" -> handle_close_all(w, Answer(ok), LateTrade(late))

\* PositionManager.__init__ with the file it finds; no call has been made
PositionManagerInit ==
    /\ positions = _load_positions(store)
    /\ monitoring = FALSE
    /\ monitor_task = "none"
    /\ mon = Idle
    /\ stop_pc = "idle"
    /\ ws_client = NoClient
    /\ ws_orphans = {}
    /\ next_id = Len(store.records) + 1
    /\ ticks = 0
    /\ closed = [i \in Ids |-> NotClosed]
    /\ close_orders = [i \in Ids |-> 0]
    /\ removals = [i \in Ids |-> 0]
    /\ stopped = FALSE
    /\ loop_tasks = 0

\* PositionManager.__init__ has run on a file a previous run left
Constructed ==
    /\ enable_trading \in BOOLEAN
    /\ max_positions \in ConfiguredLimits
    /\ store \in {f \in InitialStores : Len(f.records) <= max_positions}
    /\ PositionManagerInit

Init == Constructed /\ phase = "constructed"

\* lifespan, before the yield
Startup ==
    /\ phase = "constructed"
    /\ \E sub_ok \in BOOLEAN : start_monitoring(sub_ok)
    /\ phase' = "serving"

\* lifespan, after the yield
ShutdownBegin ==
    /\ phase = "serving"
    /\ LoopFree
    /\ stop_monitoring_begin
    /\ phase' = "stopping"

ShutdownFinish ==
    /\ phase = "stopping"
    /\ stop_monitoring_finish
    /\ phase' = "shutdown"

\* a request is served: the event loop is free and the application is up
Serving == phase = "serving" /\ LoopFree

\* what a request handler leaves alone
RequestFrame == UNCHANGED <<enable_trading, max_positions, monitoring, monitor_task, mon, stop_pc, phase, stopped, loop_tasks>>

WebhookEntry ==
    /\ Serving
    /\ \E action \in AlertActions(Sides), symbol \in Products, order_ok \in BOOLEAN, fill_price \in FillPrices, sub_ok \in BOOLEAN :
          LET w == webhook(World, action, IF action.name = "LONG"
                                  THEN handle_long_entry(World, Alert(symbol), order_ok, fill_price, sub_ok)
                                  ELSE handle_short_entry(World, Alert(symbol), order_ok, fill_price, sub_ok))
          IN  w.next_id <= MaxPositionIds + 1 /\ Commit(w)
    /\ RequestFrame

WebhookExit ==
    /\ Serving
    /\ \E side \in Sides, symbol \in Products, ok \in BOOLEAN, late \in LatePrices :
          \E action \in AlertActions({IF side = "LONG" THEN "EXIT_LONG" ELSE "EXIT_SHORT"}) :
             Commit(webhook(World, action, handle_exit(World, symbol, side, Answer(ok), LateTrade(late))))
    /\ RequestFrame

WebhookCloseAll ==
    /\ Serving
    /\ \E action \in AlertActions({"CLOSE_ALL"}), gw \in Answers, late \in LateTrades :
          Commit(webhook(World, action, handle_close_all(World, gw, late)))
    /\ RequestFrame

CloseEndpoint ==
    /\ Serving
    /\ \E id \in Ids, ok \in BOOLEAN, late \in LatePrices :
          Commit(close_position_endpoint(World, id, Answer(ok), LateTrade(late)))
    /\ RequestFrame

\* the steps of the loop task
Monitor ==
    \/ MonitorWake
    \/ CheckPnl
    \/ CheckPnlPct
    \/ CheckActivate
    \/ CheckSeed
    \/ CheckRatchet
    \/ CheckExit
    \/ \E ok \in BOOLEAN, late \in LatePrices : CheckClose(ok, late)
    \/ MonitorCancelled

Feed == \E symbol \in Products, price \in Prices : Tick(symbol, price)

Next ==
    \/ Startup
    \/ ShutdownBegin
    \/ ShutdownFinish
    \/ WebhookEntry
    \/ WebhookExit
    \/ WebhookCloseAll
    \/ CloseEndpoint
    \/ Monitor
    \/ Feed

Spec == Init /\ [][Next]_vars

\* ------------------------------------------ the PositionManager on its own

\* Position objects a caller of the PositionManager hands to add_position:
\* the two the entry handlers build for the same identifier, and a LONG
\* position whose stop-loss level lies above its take-profit level
CrossedLevels ==
    Position(2, "BTC-USD", "LONG", 1, 100 * PriceScale, 100 * PriceScale, 101 * PriceScale, 99 * PriceScale, 103 * PriceScale, 75)

Candidates ==
    {LongPosition(Alert("BTC-USD"), 1, 100 * PriceScale),
     ShortPosition(Alert("ETH-USD"), 1, 100 * PriceScale),
     CrossedLevels}

InitManager ==
    /\ Constructed
    /\ store = MissingFile
    /\ max_positions = 2
    /\ phase = "api"

\* what a call of the PositionManager leaves alone
ApiFrame == UNCHANGED <<enable_trading, max_positions, monitoring, monitor_task, mon, stop_pc, phase, stopped, loop_tasks>>

\* next_id counts the calls of add_position here
ApiAddPosition ==
    /\ LoopFree
    /\ next_id <= MaxPositionIds
    /\ \E position \in Candidates : Commit(add_position([World EXCEPT !.next_id = @ + 1], position))
    /\ ApiFrame

ApiCloseManual ==
    /\ LoopFree
    /\ \E id \in Ids, ok \in BOOLEAN, late \in LatePrices :
          Commit(close_position_manual(World, id, Answer(ok), LateTrade(late)))
    /\ ApiFrame

ApiStart ==
    /\ LoopFree
    /\ stop_pc = "idle"
    /\ \E sub_ok \in BOOLEAN : start_monitoring(sub_ok)
    /\ UNCHANGED phase

ApiStopBegin ==
    /\ LoopFree
    /\ stop_pc = "idle"
    /\ stop_monitoring_begin
    /\ UNCHANGED phase

ApiStopFinish == stop_monitoring_finish /\ UNCHANGED phase

NextManager ==
    \/ ApiAddPosition
    \/ ApiCloseManual
    \/ ApiStart
    \/ ApiStopBegin
    \/ ApiStopFinish
    \/ Monitor
    \/ Feed

SpecManager == InitManager /\ [][NextManager]_vars

\* ------------------------------------------- entries with any percentages

\* percentages TradingViewAlert admits, with the lower end of each Field
\* range: stop_loss_pct ge=0.1, take_profit_pct ge=0.1,
\* trailing_activation_pct ge=0.0, and the defaults 1.5, 1.5, 0.8
StopLossPcts == {10, 150}

TakeProfitPcts == {10, 150}

TrailingActivationPcts == {0, 80}

AlertWith(symbol, stop_loss_pct, take_profit_pct, trailing_activation_pct) ==
    [Alert(symbol) EXCEPT !.stop_loss_pct = stop_loss_pct,
                          !.take_profit_pct = take_profit_pct,
                          !.trailing_activation_pct = trailing_activation_pct]

AdmissibleAlerts ==
    {AlertWith("BTC-USD", sl, tp, ta) : sl \in StopLossPcts, tp \in TakeProfitPcts, ta \in TrailingActivationPcts}

\* the server in live mode, first run, one position at a time
InitEntry ==
    /\ Constructed
    /\ enable_trading
    /\ max_positions = 1
    /\ store = MissingFile
    /\ phase = "constructed"

\* webhook with a LONG or SHORT alert whose percentages the caller chose
WebhookEntryAlert ==
    /\ Serving
    /\ \E action \in AlertActions(Sides), alert \in AdmissibleAlerts, order_ok \in BOOLEAN, fill_price \in FillPrices :
          LET w == webhook(World, action, IF action.name = "LONG"
                                  THEN handle_long_entry(World, alert, order_ok, fill_price, TRUE)
                                  ELSE handle_short_entry(World, alert, order_ok, fill_price, TRUE))
          IN  w.next_id <= MaxPositionIds + 1 /\ Commit(w)
    /\ RequestFrame

NextEntry ==
    \/ Startup
    \/ ShutdownBegin
    \/ ShutdownFinish
    \/ WebhookEntryAlert
    \/ CloseEndpoint
    \/ Monitor
    \/ Feed

SpecEntry == InitEntry /\ [][NextEntry]_vars

\* ------------------------------------------------ start on any positions file

\* a record of a position as a check left it: armed, with its P&L
ArmedRecord(id, symbol) ==
    LET p == [LongPosition(Alert(symbol), id, 100 * PriceScale) EXCEPT !.current_price = 101 * PriceScale]
    IN  StoredRecord(update_trailing_stop(ActivateTrailing(update_pnl(p))))

\* a record without the key "pnl_pct": pos_data["pnl_pct"] raises KeyError
WithoutKey(r) == [k \in (DOMAIN r) \ {"pnl_pct"} |-> r[k]]

\* a record whose status is no value of PositionStatus: ValueError
WithBadStatus(r) == [r EXCEPT !.status = "OPEN"]

\* the files the server may find: none, one that is not JSON, files a
\* previous run wrote, and files with a malformed record in first or in
\* second place
StartFiles ==
    {MissingFile,
     UnreadableFile,
     JsonFile(<<>>),
     JsonFile(<<Stored(1, "BTC-USD", "LONG")>>),
     JsonFile(<<ArmedRecord(1, "BTC-USD"), Stored(2, "ETH-USD", "SHORT")>>),
     JsonFile(<<WithoutKey(Stored(1, "BTC-USD", "LONG"))>>),
     JsonFile(<<WithBadStatus(Stored(1, "BTC-USD", "LONG")), Stored(2, "ETH-USD", "SHORT")>>),
     JsonFile(<<Stored(1, "BTC-USD", "LONG"), WithoutKey(Stored(2, "ETH-USD", "SHORT"))>>)}

InitLoad ==
    /\ enable_trading \in BOOLEAN
    /\ max_positions = 2
    /\ store \in StartFiles
    /\ PositionManagerInit
    /\ phase = "constructed"

NextLoad ==
    \/ Startup
    \/ ShutdownBegin
    \/ ShutdownFinish
    \/ CloseEndpoint
    \/ Monitor
    \/ Feed

SpecLoad == InitLoad /\ [][NextLoad]_vars

\* ------------------------------------------- one position at the levels

\* trades at the levels of a position opened at 100 with the default
\* percentages: 98.5, 99.2, 100.9 and 101.5
ScenarioPrices ==
    {985 * (PriceScale \div 10), 992 * (PriceScale \div 10),
     1009 * (PriceScale \div 10), 1015 * (PriceScale \div 10)}

\* webhook with a LONG or SHORT alert with the default percentages, filled at 100
ScenarioEntry ==
    /\ Serving
    /\ \E action \in AlertActions(Sides) :
          LET w == webhook(World, action, IF action.name = "LONG"
                                  THEN handle_long_entry(World, Alert("BTC-USD"), TRUE, 100 * PriceScale, TRUE)
                                  ELSE handle_short_entry(World, Alert("BTC-USD"), TRUE, 100 * PriceScale, TRUE))
          IN  w.next_id <= MaxPositionIds + 1 /\ Commit(w)
    /\ RequestFrame

FeedScenario == \E symbol \in Products, price \in ScenarioPrices : Tick(symbol, price)

NextScenario ==
    \/ Startup
    \/ ShutdownBegin
    \/ ShutdownFinish
    \/ ScenarioEntry
    \/ Monitor
    \/ FeedScenario

SpecScenario == InitEntry /\ [][NextScenario]_vars

\* ------------------------------------------------------ crash and restart

\* the process starts again: lifespan builds a new CoinbaseClient and a new
\* PositionManager, whose __init__ loads the file as the last run left it.
\* Tasks, threads and sockets of the last run are gone; what the exchange
\* and the callers have seen (the history variables) stays
ProcessStart ==
    /\ positions' = _load_positions(store)
    /\ monitoring' = FALSE
    /\ monitor_task' = "none"
    /\ mon' = Idle
    /\ stop_pc' = "idle"
    /\ ws_client' = NoClient
    /\ ws_orphans' = {}
    /\ stopped' = FALSE
    /\ loop_tasks' = 0
    /\ phase' = "constructed"
    /\ UNCHANGED <<enable_trading, max_positions, store, next_id, ticks, closed, removals>>

\* the process dies between two steps of the server
Crash ==
    /\ phase = "serving"
    /\ ProcessStart
    /\ UNCHANGED close_orders

\* the process dies inside _close_position (of a check, or of a request to
\* close the position), after client.close_position has returned the order
\* and before remove_position has rewritten the file
CrashInClose ==
    /\ phase = "serving"
    /\ enable_trading
    /\ \E id \in Keys(positions) :
          /\ LoopFree \/ (mon.pc = "close" /\ Head(mon.todo) = id)
          /\ close_orders' = [close_orders EXCEPT ![id] = Bump(@)]
    /\ ProcessStart

NextRestart ==
    \/ Startup
    \/ ShutdownBegin
    \/ ShutdownFinish
    \/ ScenarioEntry
    \/ CloseEndpoint
    \/ Monitor
    \/ FeedScenario
    \/ Crash
    \/ CrashInClose

SpecRestart == InitEntry /\ [][NextRestart]_vars

\* --------------------------------------------- the loop task is scheduled

\* The event loop runs a task that is ready: asyncio.sleep returns after its
\* delay, and a step of _check_position that can run does run.  The loop
\* task is one sequential process, so this is weak fairness of its steps
SpecRetry == SpecScenario /\ WF_vars(Monitor)

\* ---------------------------------------------------------------- claims

TriggerReasons == {"STOP_LOSS", "TRAILING_STOP", "TAKE_PROFIT"}

\* the first trigger that holds for p in the order stop-loss, trailing-stop,
\* take-profit
FirstTrigger(p) ==
    IF should_stop_loss(p) THEN "STOP_LOSS"
    ELSE IF should_trailing_stop(p) THEN "TRAILING_STOP"
    ELSE IF should_take_profit(p) THEN "TAKE_PROFIT"
    ELSE None

\* the triggers that come before a reason in that order
Before(reason) ==
    CASE reason = "STOP_LOSS" -> <<>>
      [] reason = "TRAILING_STOP" -> <<"STOP_LOSS">>
      [] reason = "TAKE_PROFIT" -> <<"STOP_LOSS", "TRAILING_STOP">>

\* the operation-local fields of a World, as at the start of the next call
NextCall(w) ==
    [w EXCEPT !.called = {}, !.entry = "not called", !.raised = FALSE,
              !.ret = None, !.closed_now = <<>>]

\* C1.  In a check of the monitoring loop the exit reason is the first
\* trigger, in the order stop-loss, trailing-stop, take-profit, that the
\* check found to hold: the triggers before it were evaluated and came out
\* false, the ones after it were not looked at.  When no trade changed the
\* price during the check, the reason is the first trigger that holds at the
\* position's price, so a price that satisfies stop-loss and take-profit
\* closes with STOP_LOSS; and a trigger the chain has passed over does not hold.
C1_ExitPriority ==
    /\ mon.pc = "close" =>
          /\ mon.reason \in TriggerReasons
          /\ mon.tried = Before(mon.reason)
          /\ ~mon.raced => mon.reason = FirstTrigger(Checked)
    /\ (mon.pc = "exit" /\ ~mon.raced) =>
          \A i \in DOMAIN mon.tried : ~Triggered(Checked, mon.tried[i])
    /\ \A id \in Ids : closed[id].by = "check" => closed[id].exit_reason \in TriggerReasons

\* a check is about to close with STOP_LOSS a position whose price
\* satisfies take-profit as well
C1_Witness ==
    /\ mon.pc = "close"
    /\ ~mon.raced
    /\ mon.reason = "STOP_LOSS"
    /\ should_stop_loss(Checked)
    /\ should_take_profit(Checked)

\* C2.  Once trailing is armed, no step (trade, check, request) lowers the
\* stored trailing_stop_price of a LONG position or raises that of a SHORT
\* position, and the position stays armed.
C2_TrailingStopRatchet ==
    [][\A id \in Keys(positions) \cap Keys(positions') :
          LET p == get_position(positions, id)
              q == get_position(positions', id)
          IN  p.trailing_active =>
                 /\ q.trailing_active
                 /\ p.side = "LONG" => q.trailing_stop_price >= p.trailing_stop_price
                 /\ p.side = "SHORT" => q.trailing_stop_price <= p.trailing_stop_price]_vars

\* the ratchet step has run for an armed position whose price gives a less
\* favourable stop than the stored one
C2_Witness ==
    /\ mon.pc = "exit"
    /\ Checked.trailing_active
    /\ \/ Checked.side = "LONG" /\ MinusPct(Checked.current_price, Checked.trailing_distance_pct) < Checked.trailing_stop_price
       \/ Checked.side = "SHORT" /\ PlusPct(Checked.current_price, Checked.trailing_distance_pct) > Checked.trailing_stop_price

\* C3.  In one run every identifier is popped from the position set at most
\* once and the gateway accepts at most one close order for it; a position
\* that was closed has been popped exactly once and is not in the set, and
\* with live execution exactly one close order was accepted for it.
C3_NoDoubleClose ==
    \A id \in Ids :
       /\ removals[id] <= 1
       /\ close_orders[id] <= 1
       /\ closed[id].status = "CLOSED" <=> removals[id] = 1
       /\ removals[id] = 1 => id \notin Keys(positions)
       /\ enable_trading => close_orders[id] = removals[id]
       /\ ~enable_trading => close_orders[id] = 0

\* a position the loop closed is gone while the loop is in a later pass
\* over another position and requests have closed a third
C3_Witness ==
    /\ enable_trading
    /\ \E id \in Ids : closed[id].by = "check" /\ close_orders[id] = 1 /\ removals[id] = 1
    /\ \E id \in Ids : closed[id].by = "request" /\ close_orders[id] = 1 /\ removals[id] = 1

\* a step of the loop task that leaves the close of the position under check
CloseStep == mon.pc = "close" /\ (mon'.pc # "close" \/ mon'.todo # mon.todo)

\* C4.  With live execution a position leaves the set, or is marked CLOSED,
\* only in a step in which the gateway accepted its close order, and then it
\* has status CLOSED, an exit reason and a closing time; a close of the loop
\* that the gateway did not accept leaves the position in the set with its
\* status, exit_reason and closed_at as they were, the store and the flag
\* monitoring unchanged.
C4_CloseOnlyOnGatewaySuccess ==
    [][enable_trading =>
         \A id \in Keys(positions) :
            /\ (id \notin Keys(positions') \/ closed'[id] # closed[id]) =>
                  /\ close_orders'[id] = close_orders[id] + 1
                  /\ closed'[id].status = "CLOSED"
                  /\ closed'[id].exit_reason # None
                  /\ closed'[id].closed_at # None
                  /\ id \notin Keys(positions')
            /\ (CloseStep /\ Head(mon.todo) = id /\ close_orders'[id] = close_orders[id]) =>
                  /\ positions' = positions
                  /\ store' = store
                  /\ closed' = closed
                  /\ get_position(positions', id).status \in {"ACTIVE", "TRAILING"}
                  /\ get_position(positions', id).exit_reason = None
                  /\ get_position(positions', id).closed_at = None
                  /\ monitoring' = monitoring]_vars

\* with live execution, a position whose stop-loss holds at the price its
\* P&L was computed from is still in the set after the loop's pass: the
\* gateway refused the close
C4_Witness ==
    /\ enable_trading
    /\ monitoring
    /\ monitor_task = "sleeping"
    /\ ticks = 1
    /\ \E i \in DOMAIN positions :
          /\ should_stop_loss(positions[i])
          /\ update_pnl(positions[i]) = positions[i]
          /\ positions[i].status = "ACTIVE"
          /\ positions[i].pnl # 0

\* C5.  A position in the set is ACTIVE or TRAILING, TRAILING exactly when
\* trailing is armed, and once an object has been marked CLOSED none of its
\* fields is written again.
C5_ClosedIsTerminal ==
    /\ \A i \in DOMAIN positions : positions[i].status \in {"ACTIVE", "TRAILING"}
    /\ \A id \in Ids : closed[id].status = "CLOSED" => ~closed[id].written_after

\* C6.  With live execution disabled no close order reaches the gateway, and
\* every close (of the loop, with any trigger, or of a request) of a position
\* in the set returns without a gateway call and without an exception, marks
\* the object CLOSED with the given reason and a closing time and removes it.
C6_PaperClose ==
    ~enable_trading =>
       /\ \A id \in Ids : close_orders[id] = 0
       /\ \A id \in Ids : closed[id].status = "CLOSED" => id \notin Keys(positions)
       /\ \A id \in Keys(positions), reason \in TriggerReasons \cup {"MANUAL"}, ok \in BOOLEAN, late \in LatePrices :
             LET w == _close_position(World, id, reason, ok, late)
             IN  /\ w.called = {}
                 /\ ~w.raised
                 /\ id \notin Keys(w.positions)
                 /\ Keys(w.positions) = Keys(positions) \ {id}
                 /\ Len(w.closed_now) = 1
                 /\ w.closed_now[1].position_id = id
                 /\ w.closed_now[1].status = "CLOSED"
                 /\ w.closed_now[1].exit_reason = reason
                 /\ w.closed_now[1].closed_at # None
                 /\ w.closed[id].exit_reason = reason

\* in paper mode the loop has closed a position on a trigger and a request
\* has closed another
C6_Witness ==
    /\ ~enable_trading
    /\ \E id \in Ids : closed[id].by = "check" /\ closed[id].status = "CLOSED" /\ id \notin Keys(positions)
    /\ \E id \in Ids : closed[id].by = "request" /\ closed[id].exit_reason = "MANUAL"

\* C7.  For a position in the set whose close the gateway accepts (or in
\* paper mode), close_position_manual returns True and removes it; a second
\* call for the same identifier returns False, makes no gateway call, raises
\* nothing and leaves the set and the store as the first call left them.
C7_ManualCloseIdempotent ==
    /\ \A id \in Keys(positions), late \in LatePrices :
          LET w1 == close_position_manual(World, id, Answer(TRUE), LateTrade(late))
              w2 == close_position_manual(NextCall(w1), id, Answer(TRUE), LateTrade(late))
          IN  /\ w1.ret = "True"
              /\ ~w1.raised
              /\ id \notin Keys(w1.positions)
              /\ w2.ret = "False"
              /\ w2.called = {}
              /\ ~w2.raised
              /\ w2.positions = w1.positions
              /\ w2.store = w1.store
              /\ w2.close_orders = w1.close_orders
    /\ \A id \in Ids, ok \in BOOLEAN :
          closed[id].status = "CLOSED" =>
             LET w == close_position_manual(World, id, Answer(ok), LateTrade(0))
             IN  /\ w.ret = "False"
                 /\ w.called = {}
                 /\ ~w.raised
                 /\ w.positions = positions
                 /\ w.store = store

\* a request has closed a position and requests are still served
C7_Witness ==
    /\ phase = "serving"
    /\ LoopFree
    /\ \E id \in Ids : closed[id].by = "request" /\ closed[id].exit_reason = "MANUAL" /\ id \notin Keys(positions)

\* C8.  add_position of a Position whose identifier is in the set signals
\* failure and leaves the set and the store as they were.
C8_AddPositionFailsOnDuplicate ==
    \A position \in Candidates :
       position.position_id \in Keys(positions) =>
          LET w == add_position(World, position)
          IN  /\ w.raised
              /\ w.positions = positions
              /\ w.store = store

\* C9.  The set never holds more than MAX_CONCURRENT_POSITIONS positions nor
\* two positions of one product, and an entry (LONG or SHORT) that arrives
\* when the set is at the limit or holds a position of the product is
\* rejected: no order is placed, and the set, the store and the feed
\* subscription stay as they were.
C9_EntryAdmission ==
    /\ Len(positions) <= max_positions
    /\ \A i, j \in DOMAIN positions : positions[i].product_id = positions[j].product_id => i = j
    /\ \A side \in Sides, symbol \in Products, order_ok \in BOOLEAN, fill_price \in FillPrices, sub_ok \in BOOLEAN :
          (Len(positions) >= max_positions \/ \E i \in DOMAIN positions : positions[i].product_id = symbol) =>
             LET w == IF side = "LONG"
                      THEN handle_long_entry(World, Alert(symbol), order_ok, fill_price, sub_ok)
                      ELSE handle_short_entry(World, Alert(symbol), order_ok, fill_price, sub_ok)
             IN  /\ w.entry = "not called"
                 /\ w.raised
                 /\ w.positions = positions
                 /\ w.store = store
                 /\ w.ws_client = ws_client
                 /\ w.next_id = next_id

\* with live execution and a limit of two, entries are served while the set
\* holds one position, which an entry handler registered (the file of the
\* previous run holds no LONG position of this product): an entry for its
\* product is rejected for the product alone
C9_Witness ==
    /\ enable_trading
    /\ Serving
    /\ max_positions = 2
    /\ Len(positions) = 1
    /\ positions[1].product_id = "ETH-USD"
    /\ positions[1].side = "LONG"

\* C10.  From the return of stop_monitoring until start_monitoring is called
\* again the loop task takes no step: in particular no close on a trigger
\* (gateway call or paper removal), whatever the prices.
C10_NoCloseAfterStop ==
    [][(stopped /\ stopped') =>
          /\ mon.pc = "idle"
          /\ mon' = mon
          /\ monitor_task \in {"none", "done"}
          /\ monitor_task' = monitor_task
          /\ ~CloseStep]_vars

\* stop_monitoring has returned and a position in the set satisfies a trigger
C10_Witness ==
    /\ stopped
    /\ \E i \in DOMAIN positions : FirstTrigger(positions[i]) # None

\* a step in which stop_monitoring calls disconnect_ws and returns
DisconnectStep ==
    \/ ~stopped /\ stopped'
    \/ ws_client.state # "closed" /\ ws_client'.state = "closed"

\* C11.  In every execution of stop_monitoring, disconnect_ws is called only
\* when the loop task has finished (or none was created): the task is not in
\* a pass, not at its sleep and not unwinding from its cancellation.
C11_LoopEndsBeforeDisconnect ==
    [][DisconnectStep =>
          /\ monitor_task \in {"none", "done"}
          /\ monitor_task' = monitor_task
          /\ loop_tasks = 0
          /\ mon = Idle
          /\ mon' = mon]_vars

\* stop_monitoring has returned and closed the feed after a loop task ran
\* checks over a position that is still in the set
C11_Witness ==
    /\ stopped
    /\ monitor_task = "done"
    /\ ws_client.state = "closed"
    /\ \E i \in DOMAIN positions : positions[i].pnl # 0

\* C12.  At every moment at most one task runs _monitor_loop, and it exists
\* whenever monitoring is set; while monitoring is set no call of the
\* PositionManager (start_monitoring included) creates a task or touches the
\* feed subscription.
C12_StartMonitoringIdempotent ==
    [][/\ loop_tasks' <= 1
       /\ monitoring' => loop_tasks' = 1
       /\ loop_tasks' = 1 <=> monitor_task' \in {"sleeping", "running", "cancelling"}
       /\ (monitoring /\ monitoring') =>
             /\ loop_tasks' = loop_tasks
             /\ ws_client' = ws_client
             /\ ws_orphans' = ws_orphans]_vars

\* monitoring runs with its one task at the sleep, and the products of the
\* set are not the ones start_monitoring subscribed to: a call of
\* start_monitoring that went on would subscribe again
C12_Witness ==
    /\ monitoring
    /\ monitor_task = "sleeping"
    /\ loop_tasks = 1
    /\ get_active_products(positions) # {}
    /\ get_active_products(positions) # ws_client.products

\* C13.  When stop_monitoring has returned, or monitoring was never started,
\* a call of stop_monitoring finds the flag false and no unfinished task, so
\* it does no more than disconnect_ws, which raises nothing and leaves the
\* client, the position set and the store as they are: the state after the
\* call is the state before it.
C13_StopMonitoringIdempotent ==
    (stop_pc = "idle" /\ (stopped \/ monitor_task = "none")) =>
       LET w == disconnect_ws(World)
       IN  /\ ~monitoring
           /\ monitor_task \in {"none", "done"}
           /\ loop_tasks = 0
           /\ ws_client.state \in {"none", "closed"}
           /\ ~w.raised
           /\ w = World

\* stop_monitoring has returned and closed the client, a position was closed
\* in the run and the set still holds one: a further stop_monitoring finds
\* the closed client
C13_Witness ==
    /\ stopped
    /\ stop_pc = "idle"
    /\ ws_client.state = "closed"
    /\ positions # <<>>
    /\ \E id \in Ids : removals[id] = 1

\* exit_reason is set exactly when status is CLOSED
ReasonIffClosed(p) == (p.exit_reason # None) <=> (p.status = "CLOSED")

\* C14.  exit_reason is set if and only if status = CLOSED: for every
\* position in the set, for every object a close has marked (as recorded
\* when it was marked), for the objects a restart would build from the
\* store, and for the objects any close applied now leaves behind, in the
\* set and out of it.
C14_ExitReasonIffClosed ==
    /\ \A i \in DOMAIN positions : ReasonIffClosed(positions[i])
    /\ \A id \in Ids : ReasonIffClosed(closed[id])
    /\ \A p \in {_load_positions(store)[i] : i \in DOMAIN _load_positions(store)} : ReasonIffClosed(p)
    /\ \A id \in Keys(positions), reason \in TriggerReasons \cup {"MANUAL"}, ok \in BOOLEAN, late \in LatePrices :
          LET w == _close_position(World, id, reason, ok, late)
          IN  /\ \A i \in DOMAIN w.positions : ReasonIffClosed(w.positions[i])
              /\ \A i \in DOMAIN w.closed_now : ReasonIffClosed(w.closed_now[i])
              /\ ~w.raised => Len(w.closed_now) = 1 /\ w.closed_now[1].exit_reason = reason

\* one position has been closed with a reason while another, armed, is in
\* the set without one
C14_Witness ==
    /\ \E id \in Ids : closed[id].status = "CLOSED" /\ closed[id].exit_reason \in TriggerReasons
    /\ \E i \in DOMAIN positions : positions[i].status = "TRAILING" /\ positions[i].exit_reason = None

\* the levels of a position lie on the right sides of its entry price; the
\* trailing-activation level may coincide with it
LevelsOrdered(p) ==
    IF p.side = "LONG"
    THEN /\ p.stop_loss_price < p.entry_price
         /\ p.entry_price < p.take_profit_price
         /\ p.trailing_activation_price >= p.entry_price
    ELSE /\ p.stop_loss_price > p.entry_price
         /\ p.entry_price > p.take_profit_price
         /\ p.trailing_activation_price <= p.entry_price

\* the same with the trailing-activation level strictly beyond the entry price
LevelsStrictlyOrdered(p) ==
    /\ LevelsOrdered(p)
    /\ p.trailing_activation_price # p.entry_price

\* C15 as stated: every position the entry handlers created has, for its
\* whole lifetime, stop-loss < entry < take-profit and trailing-activation
\* > entry for LONG, the inverse for SHORT.
C15_LevelsStrictlyOrdered ==
    \A i \in DOMAIN positions : LevelsStrictlyOrdered(positions[i])

\* C15, amended.  Every position the entry handlers created from an alert
\* with admissible percentages has, for its whole lifetime, stop-loss <
\* entry < take-profit and trailing-activation >= entry for LONG, the
\* inverse for SHORT; the trailing-activation level equals the entry price
\* exactly when trailing_activation_pct is 0.
C15_ExitLevelOrdering ==
    /\ \A i \in DOMAIN positions : LevelsOrdered(positions[i])
    /\ \A alert \in AdmissibleAlerts, fill_price \in FillPrices \ {0} :
          \A p \in {LongPosition(alert, next_id, fill_price), ShortPosition(alert, next_id, fill_price)} :
             /\ LevelsOrdered(p)
             /\ alert.trailing_activation_pct > 0 => LevelsStrictlyOrdered(p)
             /\ alert.trailing_activation_pct = 0 => p.trailing_activation_price = p.entry_price

\* a position opened with trailing_activation_pct 0 was armed by its first
\* check and is still in the set after the price moved
C15_Witness ==
    \E i \in DOMAIN positions :
       /\ positions[i].trailing_activation_price = positions[i].entry_price
       /\ positions[i].status = "TRAILING"
       /\ positions[i].current_price # positions[i].entry_price

\* saving a position set and loading the file gives the same set
RoundTrip(ps) == _load_positions(SavedFile(ps)) = ps

\* the position sets _close_position goes through between marking a
\* position CLOSED and popping it
SetsInClose ==
    {DictSet(positions, MarkClosed(get_position(positions, id), reason)) :
        id \in Keys(positions), reason \in TriggerReasons \cup {"MANUAL"}}

LoadFails(file) ==
    \/ file.state # "json"
    \/ \E i \in DOMAIN file.records : ~WellFormed(file.records[i])

\* C17.  After construction on a file whose load fails (missing,
\* unreadable, or with a malformed record at any place) the position set is
\* empty.
C17_LoadFailureLeavesEmptySet ==
    (phase = "constructed" /\ LoadFails(store)) => positions = <<>>

\* C18.  For every position, should_stop_loss, should_take_profit and
\* should_activate_trailing are the comparisons of current_price with the
\* level: <=, >=, >= for LONG and >=, <=, <= for SHORT, the last only while
\* trailing is not active.
C18_TriggerPredicates ==
    \A i \in DOMAIN positions :
       LET p == positions[i]
       IN  IF p.side = "LONG"
           THEN /\ should_stop_loss(p) <=> p.current_price <= p.stop_loss_price
                /\ should_take_profit(p) <=> p.current_price >= p.take_profit_price
                /\ should_activate_trailing(p) <=>
                      (~p.trailing_active /\ p.current_price >= p.trailing_activation_price)
           ELSE /\ should_stop_loss(p) <=> p.current_price >= p.stop_loss_price
                /\ should_take_profit(p) <=> p.current_price <= p.take_profit_price
                /\ should_activate_trailing(p) <=>
                      (~p.trailing_active /\ p.current_price <= p.trailing_activation_price)

\* the price of a SHORT position is exactly its stop-loss level
C18_Witness ==
    \E i \in DOMAIN positions :
       /\ positions[i].side = "SHORT"
       /\ positions[i].current_price = positions[i].stop_loss_price
       /\ should_stop_loss(positions[i])

\* the position under check is the LONG position opened at 100 with the
\* default percentages (stop-loss 98.5, take-profit 101.5, activation
\* 100.8, distance 0.75 %), its price is the given one, and no trade has
\* changed its price since the check began
ScenarioCheck(price) ==
    /\ mon.pc # "idle"
    /\ ~mon.raced
    /\ Checked = [LongPosition(Alert("BTC-USD"), Checked.position_id, 100 * PriceScale) EXCEPT
                      !.current_price = Checked.current_price,
                      !.status = Checked.status,
                      !.trailing_active = Checked.trailing_active,
                      !.trailing_stop_price = Checked.trailing_stop_price,
                      !.pnl = Checked.pnl,
                      !.pnl_pct = Checked.pnl_pct]
    /\ Checked.current_price = price

\* a step of the loop task inside a check that no trade disturbs
QuietCheckStep == mon' # mon /\ ticks' = ticks /\ ~mon'.raced

\* C19.  A check of the scenario position at 100.9 arms it (status TRAILING)
\* and does not close it; a check at 101.5 finds stop-loss and trailing-stop
\* false and closes with TAKE_PROFIT, the position being TRAILING; a check
\* at 98.5 closes with STOP_LOSS, also when the position was never armed;
\* and a close the gateway accepts marks the position CLOSED with the
\* check's reason and removes it.
C19_ScenarioA ==
    [][/\ (ScenarioCheck(1009 * (PriceScale \div 10)) /\ QuietCheckStep) =>
             /\ mon'.pc # "close"
             /\ mon.pc \in {"ratchet", "exit"} =>
                   Checked.status = "TRAILING" /\ Checked.trailing_active
       /\ (ScenarioCheck(1015 * (PriceScale \div 10)) /\ QuietCheckStep /\ mon.pc = "exit") =>
             /\ Checked.status = "TRAILING"
             /\ mon'.pc = "close" <=> Len(mon.tried) = 2
             /\ mon'.pc = "close" => mon'.reason = "TAKE_PROFIT"
             /\ mon'.pc # "close" => mon'.pc = "exit" /\ Len(mon'.tried) = Len(mon.tried) + 1
       /\ (ScenarioCheck(985 * (PriceScale \div 10)) /\ QuietCheckStep /\ mon.pc = "exit") =>
             /\ mon'.pc = "close"
             /\ mon'.reason = "STOP_LOSS"
             /\ mon.tried = <<>>
       /\ (mon.pc = "close" /\ close_orders'[Head(mon.todo)] = close_orders[Head(mon.todo)] + 1) =>
             /\ closed'[Head(mon.todo)].status = "CLOSED"
             /\ closed'[Head(mon.todo)].exit_reason = mon.reason
             /\ Head(mon.todo) \notin Keys(positions')]_vars

\* the position was armed by a check at 100.9, which seeded the stop from
\* that price and did not close it; the price is now 101.5 and the next
\* check is under way
C19_Witness ==
    /\ ScenarioCheck(1015 * (PriceScale \div 10))
    /\ mon.pc = "ratchet"
    /\ Checked.status = "TRAILING"
    /\ Checked.trailing_stop_price = MinusPct(1009 * (PriceScale \div 10), 75)

\* the difference of two prices
Distance(x, y) == IF x >= y THEN x - y ELSE y - x

\* C20 as stated: arming at 100.9 seeds the trailing stop at 100.149 and the
\* check at 101.5 ratchets it to 100.744, to the three decimals given.
C20_TrailingStopSpecValues ==
    /\ (ScenarioCheck(1009 * (PriceScale \div 10)) /\ mon.pc = "seed") =>
          Distance(ActivateTrailing(Checked).trailing_stop_price, 100149 * (PriceScale \div 1000)) * 2000 <= PriceScale
    /\ (ScenarioCheck(1015 * (PriceScale \div 10)) /\ mon.pc = "exit") =>
          Distance(Checked.trailing_stop_price, 100744 * (PriceScale \div 1000)) * 2000 <= PriceScale

\* C20, amended.  Arming at 100.9 seeds the trailing stop at
\* 100.9 x (1 - 0.75/100) = 100.14325, and after the ratchet of a check at
\* 101.5 it is 101.5 x (1 - 0.75/100) = 100.73875.
C20_TrailingStopValues ==
    /\ (ScenarioCheck(1009 * (PriceScale \div 10)) /\ mon.pc = "seed") =>
          /\ ActivateTrailing(Checked).trailing_stop_price = 100 * PriceScale + 14325
          /\ update_trailing_stop(ActivateTrailing(Checked)).trailing_stop_price = 100 * PriceScale + 14325
    /\ (ScenarioCheck(1015 * (PriceScale \div 10)) /\ mon.pc = "exit") =>
          Checked.trailing_stop_price = 100 * PriceScale + 73875

\* the stop seeded at 100.9 has been ratcheted by the check at 101.5
C20_Witness ==
    /\ ScenarioCheck(1015 * (PriceScale \div 10))
    /\ mon.pc = "exit"
    /\ Checked.trailing_stop_price = MinusPct(1015 * (PriceScale \div 10), 75)
    /\ store.records[1].trailing_stop_price = Checked.trailing_stop_price

\* the positions a call tried to close: the gateway was called for them, or
\* they left the set
Attempted(w) == w.called \cup (Keys(positions) \ Keys(w.positions))

\* C21.  Whatever the gateway answers to each close, a close-all request
\* (the CLOSE_ALL handler, or close_all_positions) attempts a manual close
\* for every position that is in the set when it is invoked, also for the
\* ones that come after a position the gateway failed to close.
C21_CloseAllAttemptsEvery ==
    Serving =>
       \A gw \in Answers, late \in LateTrades :
          /\ Keys(positions) \subseteq Attempted(handle_close_all(World, gw, late))
          /\ Keys(positions) \subseteq Attempted(close_all_positions(World, gw, late))

\* C22.  Across crashes and restarts the gateway accepts at most one close
\* order for a position, and a position whose close order the gateway has
\* accepted is not in the position set of any run.
C22_RestartSafety ==
    \A id \in Ids :
       /\ close_orders[id] <= 1
       /\ close_orders[id] = 1 => id \notin Keys(positions)

\* the position is in the set under a running monitor and reason is the
\* first trigger that holds at its price
Waiting(id, reason) ==
    /\ monitoring
    /\ id \in Keys(positions)
    /\ FirstTrigger(get_position(positions, id)) = reason

\* the loop is about to call _close_position for the position with the reason
AttemptAt(id, reason) ==
    /\ mon.pc = "close"
    /\ Head(mon.todo) = id
    /\ mon.reason = reason

\* the gateway does not refuse for ever: of close orders sent again and
\* again, one is accepted
GatewayAccepts == SF_vars(\E late \in LatePrices : CheckClose(TRUE, late))

\* C23.  While monitoring runs and the price stays where a trigger holds,
\* the loop comes to call _close_position for the position with that
\* trigger, whatever the gateway answered before: a failed close leaves the
\* position waiting, so it is attempted again on a later pass.  If the
\* gateway does not refuse for ever, the position is marked CLOSED and
\* removed.  (Or monitoring stops, or the price moves to where the trigger
\* is another or none.)
C23_ExitRetryLiveness ==
    /\ \A id \in Ids, reason \in TriggerReasons :
          (Waiting(id, reason) /\ ~AttemptAt(id, reason))
             ~> (AttemptAt(id, reason) \/ ~Waiting(id, reason))
    /\ GatewayAccepts =>
          \A id \in Ids, reason \in TriggerReasons :
             Waiting(id, reason)
                ~> (\/ id \notin Keys(positions) /\ closed[id].status = "CLOSED"
                    \/ ~monitoring
                    \/ id \in Keys(positions) /\ ~Waiting(id, reason))

\* with live execution a pass starts on a position whose P&L was computed
\* at its price and whose trigger holds at that price: the pass before
\* attempted the close and the gateway refused
C23_Witness ==
    /\ enable_trading
    /\ monitoring
    /\ mon.pc = "pnl"
    /\ Checked.pnl # 0
    /\ update_pnl(Checked) = Checked
    /\ FirstTrigger(Checked) # None

\* C24.  For every trade, _on_price_update leaves the position set with
\* the same identifiers in the same order, writes the trade's price to
\* current_price of the positions of the trade's product and to nothing
\* else (the other positions and every other field are as before), leaves
\* the store as it is, marks nothing CLOSED, removes nothing and sends no
\* order.
C24_PriceUpdateFrame ==
    \A symbol \in Products, price \in Prices :
       LET w == _on_price_update(World, symbol, price)
       IN  /\ KeyList(w.positions) = KeyList(positions)
           /\ \A i \in DOMAIN positions :
                 w.positions[i] = IF positions[i].product_id = symbol
                                  THEN [positions[i] EXCEPT !.current_price = price]
                                  ELSE positions[i]
           /\ w.store = store
           /\ w.closed = closed
           /\ w.close_orders = close_orders
           /\ w.removals = removals
           /\ w.called = {}
           /\ w.closed_now = <<>>

\* two positions of different products, armed or not, after a trade that
\* moved the price of one of them only; the store still has the old price
C24_Witness ==
    /\ ticks > 0
    /\ store.state = "json"
    /\ \E i, j \in DOMAIN positions :
          /\ positions[i].product_id # positions[j].product_id
          /\ positions[i].current_price # positions[i].entry_price
          /\ positions[j].current_price = positions[j].entry_price
          /\ i \in DOMAIN store.records
          /\ store.records[i].current_price # positions[i].current_price

\* C25.  When the close of the position under check fails at the gateway,
\* the loop task lives on with monitoring as it was, every position is as
\* it was, and the pass goes on: the check of the next position of the
\* snapshot starts, or, after the last one, the task sleeps until the next
\* pass.  During a pass the positions still to be checked are in the set.
C25_ErrorIsolation ==
    [][/\ (CloseStep /\ enable_trading /\ close_orders' = close_orders) =>
             /\ positions' = positions
             /\ store' = store
             /\ monitoring' = monitoring
             /\ loop_tasks' = loop_tasks
             /\ mon'.todo = IF Len(mon.todo) > 1 THEN Tail(mon.todo) ELSE <<>>
             /\ IF Len(mon.todo) > 1
                THEN mon'.pc = "pnl" /\ monitor_task' = "running"
                ELSE mon'.pc = "idle" /\ monitor_task' = "sleeping"
       /\ \A i \in DOMAIN mon'.todo : mon'.todo[i] \in Keys(positions')]_vars

\* with live execution the second position of a snapshot is under check
\* while the first is still in the set with a trigger that holds at the
\* price its P&L was computed from: its close failed in this pass
C25_Witness ==
    /\ enable_trading
    /\ mon.pc = "pnl"
    /\ Len(positions) = 2
    /\ mon.todo = <<positions[2].position_id>>
    /\ positions[1].pnl # 0
    /\ update_pnl(positions[1]) = positions[1]
    /\ FirstTrigger(positions[1]) # None

\* C26.  After every step of the server (an entry, a close, a removal, the
\* arming and the ratchet of a check, a trade) the file holds one record per
\* position of the set and no other, in the same order, and each record has
\* the status, the trailing flag and the trailing-stop price of its position.
C26_StoreTracksMemory ==
    /\ Len(store.records) = Len(positions)
    /\ \A i \in DOMAIN positions :
          /\ store.records[i].position_id = positions[i].position_id
          /\ store.records[i].status = positions[i].status
          /\ store.records[i].trailing_active = positions[i].trailing_active
          /\ store.records[i].trailing_stop_price = positions[i].trailing_stop_price

\* one position has been closed and removed, another is armed with a stop
\* that has moved from the price it was seeded at, and the file has it
C26_Witness ==
    /\ \E id \in Ids : removals[id] = 1
    /\ ticks = MaxTicks
    /\ \E i \in DOMAIN positions :
          /\ positions[i].trailing_active
          /\ positions[i].pnl # 0
          /\ store.records[i].trailing_stop_price = positions[i].trailing_stop_price
          /\ store.records[i].pnl # positions[i].pnl

\* C27.  While a check has reads of current_price still to make (the
\* second assignment of update_pnl, the arming, the ratchet, the exit
\* predicates), the price of the position under check is the one the
\* check's first read saw: no trade has changed it since.
C27_OnePricePerCheck ==
    mon.pc \in {"pnl_pct", "activate", "seed", "ratchet", "exit"} => ~mon.raced

\* C28.  Every position in the set is TRAILING with trailing armed and a
\* trailing-stop price above 0, or ACTIVE with trailing not armed and a
\* trailing-stop price of 0.
C28_StatusMatchesTrailing ==
    \A i \in DOMAIN positions :
       LET p == positions[i]
       IN  /\ p.status = "TRAILING" <=> p.trailing_active
           /\ p.status = "ACTIVE" <=> ~p.trailing_active
           /\ p.trailing_stop_price = 0 <=> ~p.trailing_active

\* a SHORT position that a check of this run armed, next to a LONG position
\* that was loaded armed
C28_Witness ==
    /\ Len(positions) = 2
    /\ positions[1].status = "TRAILING"
    /\ positions[2].side = "SHORT"
    /\ positions[2].status = "TRAILING"
    /\ positions[2].trailing_stop_price = PlusPct(positions[2].current_price, positions[2].trailing_distance_pct)

\* what an entry request does to the state, for each answer of the
\* exchange: the order placed or refused, the price lookup, the subscription
EntryOutcomes ==
    {IF side = "LONG"
     THEN handle_long_entry(World, Alert(symbol), order_ok, fill_price, sub_ok)
     ELSE handle_short_entry(World, Alert(symbol), order_ok, fill_price, sub_ok) :
        side \in Sides, symbol \in Products, order_ok \in BOOLEAN,
        fill_price \in FillPrices, sub_ok \in BOOLEAN}

\* C29.  Whenever an entry handler has placed its market order and the
\* gateway accepted it, the handler leaves a position of the alert's product
\* in the position set, also when the price lookup after the order fails
\* and returns 0.
C29_AcceptedOrderIsTracked ==
    (Serving /\ enable_trading) =>
       \A w \in EntryOutcomes :
          w.entry = "accepted" => Len(w.positions) = Len(positions) + 1

\* C30.  An entry request that ends in a failure to the caller (rejected,
\* order refused, or an exception after the order) leaves the position set
\* and the store as they were before the request.
C30_FailedEntryChangesNothing ==
    (Serving /\ enable_trading) =>
       \A w \in EntryOutcomes :
          w.raised => (w.positions = positions /\ w.store = store)

\* what a request on the webhook does to the state, for every action, in
\* either form of alert.action, and every answer of the exchange
WebhookOutcomes ==
    {webhook(World, action, Routed(World, action.name, symbol, ok, fill_price, sub_ok, late)) :
        action \in AlertActions(Actions), symbol \in Products, ok \in BOOLEAN,
        fill_price \in FillPrices, sub_ok \in BOOLEAN, late \in LatePrices}

\* C31.  With ENABLE_TRADING false a request on the webhook, whatever its
\* action, places no entry order and no close order, leaves the position
\* set and the store as they were, and is answered with success.
C31_PaperWebhook ==
    (Serving /\ ~enable_trading) =>
       \A w \in WebhookOutcomes :
          /\ w.entry = "not called"
          /\ w.called = {}
          /\ w.positions = positions
          /\ w.store = store
          /\ ~w.raised
          /\ w.ret = "paper"

\* the objects a close marks CLOSED, as they leave the set, when no trade
\* is delivered during the close: for a close request by identifier, for an
\* exit alert, and for the close of the check under way
ClosedByRequest ==
    {close_position_manual(World, id, Answer(ok), LateTrade(0)).closed_now :
        id \in Ids, ok \in BOOLEAN}
    \cup {handle_exit(World, symbol, side, Answer(ok), LateTrade(0)).closed_now :
             symbol \in Products, side \in Sides, ok \in BOOLEAN}

ClosedByCheck ==
    IF mon.pc = "close"
    THEN {_close_position([World EXCEPT !.by = "check"], Head(mon.todo), mon.reason, ok, 0).closed_now :
             ok \in BOOLEAN}
    ELSE {}

\* C32.  A position that is closed, by a request or by the loop, in paper
\* or live mode, leaves the set with pnl and pnl_pct equal to the P&L of its
\* current_price at that moment.
C32_PnlAtClose ==
    \A cs \in ClosedByRequest \cup ClosedByCheck :
       \A i \in DOMAIN cs : update_pnl(cs[i]) = cs[i]

=============================================================================
